---- MODULE Spec2Model ----
(***************************************************************************)
(* Model of src/main.py: the unused-import remover.                        *)
(*                                                                         *)
(* One invocation of main() validates the target path, calls               *)
(* find_unused_imports and then remove_unused_imports.  The target file is *)
(* a sequence of characters; text-mode reads go through universal-newline  *)
(* translation, ast.parse is modelled for the fragment of the language the *)
(* input files are drawn from, and ast.walk is the breadth-first walk of   *)
(* the standard library.                                                   *)
(***************************************************************************)
EXTENDS Integers, Sequences, FiniteSets, TLC

VARIABLES
    filepath,        \* args.filepath, the same for every invocation
    target,          \* the file-system entry the path names
    pc,              \* position of main(): "main", "find", "remove", "exited"
    dry_run,         \* args.dry_run of the current invocation
    unused_imports,  \* the list find_unused_imports returned
    tree,            \* the tree find_unused_imports returned (NoTree for None)
    log,             \* the records logged by the current invocation
    exit_code,       \* <<>> while running, then <<status>>
    calls,           \* the functions main() has called in this invocation
    run,             \* number of the current invocation
    before,          \* the target as it was when the current invocation began
    prev             \* how the previous invocation ran and ended

vars == <<filepath, target, pc, dry_run, unused_imports, tree, log, exit_code, calls,
          run, before, prev>>

\* ---------------------------------------------------------------- bounds
MaxLines == 2
MaxRuns  == 2

\* ------------------------------------------------------------ characters
NL == "\n"
CR == "\r"
\* a byte that is not valid UTF-8; one element of the file's data
InvalidByte == "0xFF"

\* -------------------------------------------------------- list utilities
RECURSIVE Concat(_)
Concat(ss) == IF ss = <<>> THEN <<>> ELSE Head(ss) \o Concat(Tail(ss))

RECURSIVE SelectIdx(_, _, _)
\* the elements of s whose index, counted from i, is not in drop
SelectIdx(s, drop, i) ==
    IF s = <<>> THEN <<>>
    ELSE (IF i \in drop THEN <<>> ELSE <<Head(s)>>)
         \o SelectIdx(Tail(s), drop, i + 1)

SeqsUpTo(S, n) == UNION {[1..k -> S] : k \in 0..n}

Range(s) == {s[i] : i \in 1..Len(s)}

\* ------------------------------------------------- Python str operations
MinOr(S, none) == IF S = {} THEN none ELSE CHOOSE i \in S : \A j \in S : i <= j
MaxOr(S, none) == IF S = {} THEN none ELSE CHOOSE i \in S : \A j \in S : i >= j

\* str.find(ch, start): lowest 0-based index >= start holding ch, else -1
PyFind(s, ch, start) ==
    MinOr({i \in 0..(Len(s) - 1) : i >= start /\ s[i + 1] = ch}, -1)

\* str.rfind(ch, start, end): highest 0-based index in [start, end), else -1
PyRFind(s, ch, start, end) ==
    MaxOr({i \in 0..(Len(s) - 1) : i >= start /\ i < end /\ s[i + 1] = ch}, -1)

Clamp(n, j) == IF j < 0 THEN 0 ELSE IF j > n THEN n ELSE j

\* a slice bound as Python normalises it: negative counts from the end,
\* then clamped to 0..len
PyBound(n, i) == Clamp(n, IF i < 0 THEN i + n ELSE i)

Between(s, a, b) == IF a >= b THEN <<>> ELSE SubSeq(s, a + 1, b)

\* s[i:j]
PySlice(s, i, j) == Between(s, PyBound(Len(s), i), PyBound(Len(s), j))

\* ------------------------------------------------------- the file system
\* The entry a path names: nothing, a directory, or a regular file holding
\* `data` (a sequence of characters; line ends are "\n" or "\r","\n").
Absent    == [kind |-> "absent", data |-> <<>>, readable |-> FALSE]
Directory == [kind |-> "dir", data |-> <<>>, readable |-> TRUE]
File(d)   == [kind |-> "file", data |-> d, readable |-> TRUE]
Unreadable(d) == [kind |-> "file", data |-> d, readable |-> FALSE]

\* a validation that lets every path through
os_path_exists_always(t) == TRUE

\* os.path.exists(filepath)
os_path_exists(t) == t.kind # "absent"

IOErrors == {"FileNotFoundError", "IsADirectoryError", "PermissionError", "OSError"}

\* open(filepath, "r"): the exception it raises, or "ok"
OpenRead(t) ==
    CASE t.kind = "absent" -> "FileNotFoundError"
      [] t.kind = "dir"    -> "IsADirectoryError"
      [] ~t.readable       -> "PermissionError"
      [] OTHER             -> "ok"

\* text-mode input (newline=None): "\r\n" and a lone "\r" both read as "\n"
RECURSIVE UniversalNewlines(_)
UniversalNewlines(d) ==
    IF d = <<>> THEN <<>>
    ELSE IF Head(d) = CR
         THEN IF Len(d) > 1 /\ d[2] = NL
              THEN <<NL>> \o UniversalNewlines(Tail(Tail(d)))
              ELSE <<NL>> \o UniversalNewlines(Tail(d))
         ELSE <<Head(d)>> \o UniversalNewlines(Tail(d))

\* f.read() of a file opened in text mode: the exception, or the text
FRead(t) ==
    IF t.kind # "file" \/ ~t.readable THEN [exc |-> OpenRead(t), text |-> <<>>]
    ELSE IF InvalidByte \in Range(t.data)
         THEN [exc |-> "UnicodeDecodeError", text |-> <<>>]
         ELSE [exc |-> "ok", text |-> UniversalNewlines(t.data)]

\* str.splitlines(keepends=True) restricted to "\n", as readlines() splits
RECURSIVE KeepEnds(_)
KeepEndsAt(text, i) ==
    IF text = <<>> THEN <<>>
    ELSE IF i = -1 THEN <<text>>
    ELSE <<SubSeq(text, 1, i + 1)>> \o KeepEnds(SubSeq(text, i + 2, Len(text)))

KeepEnds(text) == KeepEndsAt(text, PyFind(text, NL, 0))

LinesOf(r) ==
    [exc |-> r.exc, lines |-> IF r.exc = "ok" THEN KeepEnds(r.text) ELSE <<>>]

\* f.readlines(): the exception, or the list of lines with their "\n"
FReadLines(t) == LinesOf(FRead(t))

\* os.linesep of the platform the tool runs on
os_linesep == <<NL>>

\* text-mode output (newline=None): every "\n" written becomes os.linesep
RECURSIVE TextOut(_)
TextOut(text) ==
    IF text = <<>> THEN <<>>
    ELSE (IF Head(text) = NL THEN os_linesep ELSE <<Head(text)>>)
         \o TextOut(Tail(text))

\* f.writelines(lines) on a file opened with "w"
FWriteLines(lines) == File(TextOut(Concat(lines)))

\* ------------------------------------------------------------- ast.parse
\* A node: its class, its lineno, id (Name), attr (Attribute), names (the
\* aliases of an import: name and asname, asname <<>> when absent) and its
\* child nodes in field order.  The alias and expression-context children,
\* which neither loop of find_unused_imports looks at, are left out.
Node(type, lineno, id, attr, names, kids) ==
    [type |-> type, lineno |-> lineno, id |-> id, attr |-> attr,
     names |-> names, kids |-> kids]

NoTree      == Node("None", 0, <<>>, <<>>, <<>>, <<>>)
SyntaxError == Node("SyntaxError", 0, <<>>, <<>>, <<>>, <<>>)

Letters == {"a", "b", "f", "m"}

kw_import == <<"i", "m", "p", "o", "r", "t", " ">>
kw_from   == <<"f", "r", "o", "m", " ", "m", " ">> \o kw_import
kw_def    == <<"d", "e", "f", " ", "f", "(", ")", ":">>
kw_as     == <<" ", "a", "s", " ">>

StartsWith(s, p) == Len(s) >= Len(p) /\ SubSeq(s, 1, Len(p)) = p
After(s, p) == SubSeq(s, Len(p) + 1, Len(s))

\* first 1-based position of sep in s, 0 when absent
FindSeq(s, sep) ==
    MinOr({i \in 1..(Len(s) - Len(sep) + 1) : SubSeq(s, i, i + Len(sep) - 1) = sep}, 0)

RECURSIVE SplitOn(_, _)
SplitAt(s, sep, i) ==
    IF i = 0 THEN <<s>>
    ELSE <<SubSeq(s, 1, i - 1)>> \o SplitOn(SubSeq(s, i + Len(sep), Len(s)), sep)

\* str.split(sep)
SplitOn(s, sep) == SplitAt(s, sep, FindSeq(s, sep))

IsIdent(s) == s # <<>> /\ \A i \in 1..Len(s) : s[i] \in Letters

IsDotted(s) == \A p \in Range(SplitOn(s, <<".">>)) : IsIdent(p)

\* alias: dotted_name ["as" NAME]; asname is <<>> when there is none
AliasOf(p, dotted) ==
    IF /\ Len(p) \in {1, 2}
       /\ IF dotted THEN IsDotted(p[1]) ELSE IsIdent(p[1])
       /\ Len(p) = 2 => IsIdent(p[2])
    THEN [ok |-> TRUE, name |-> p[1], asname |-> IF Len(p) = 2 THEN p[2] ELSE <<>>]
    ELSE [ok |-> FALSE, name |-> <<>>, asname |-> <<>>]

ParseAlias(s, dotted) == AliasOf(SplitOn(s, kw_as), dotted)

EachAlias(p, dotted) == [i \in 1..Len(p) |-> ParseAlias(p[i], dotted)]

ParseAliases(s, dotted) == EachAlias(SplitOn(s, <<",", " ">>), dotted)

\* NAME ("." NAME)*: a Name, or Attribute nodes nested on the left
RECURSIVE AttrChain(_, _)
AttrChain(parts, n) ==
    IF Len(parts) = 1 THEN Node("Name", n, parts[1], <<>>, <<>>, <<>>)
    ELSE Node("Attribute", n, <<>>, parts[Len(parts)], <<>>,
              <<AttrChain(SubSeq(parts, 1, Len(parts) - 1), n)>>)

\* an Import or ImportFrom node on line n, unless an alias is malformed
ImportNode(type, n, as) ==
    IF \A i \in 1..Len(as) : as[i].ok
    THEN Node(type, n, <<>>, <<>>,
              [i \in 1..Len(as) |-> [name |-> as[i].name, asname |-> as[i].asname]],
              <<>>)
    ELSE SyntaxError

\* one simple statement on line n
ParseSimple(s, n) ==
    IF StartsWith(s, kw_import)
    THEN ImportNode("Import", n, ParseAliases(After(s, kw_import), TRUE))
    ELSE IF StartsWith(s, kw_from)
    THEN ImportNode("ImportFrom", n, ParseAliases(After(s, kw_from), FALSE))
    ELSE IF IsDotted(s)
    THEN Node("Expr", n, <<>>, <<>>, <<>>, <<AttrChain(SplitOn(s, <<".">>), n)>>)
    ELSE SyntaxError

EachSimple(p, n) == [i \in 1..Len(p) |-> ParseSimple(p[i], n)]

\* simple_stmt (";" simple_stmt)* on line n
ParseSimpleList(s, n) == EachSimple(SplitOn(s, <<";", " ">>), n)

\* def f(): followed by its body on the same line
FunctionDef(body, n) ==
    IF SyntaxError \in Range(body) THEN <<SyntaxError>>
    ELSE <<Node("FunctionDef", n, <<"f">>, <<>>, <<>>, body)>>

\* the statements of physical line n: a one-line def, or simple statements
ParseLine(s, n) ==
    IF s = <<>> THEN <<>>
    ELSE IF StartsWith(s, kw_def \o <<" ">>)
    THEN FunctionDef(ParseSimpleList(After(s, kw_def \o <<" ">>), n), n)
    ELSE ParseSimpleList(s, n)

EachLine(ls) == Concat([n \in 1..Len(ls) |-> ParseLine(ls[n], n)])

Module(body) ==
    IF SyntaxError \in Range(body) THEN SyntaxError
    ELSE Node("Module", 0, <<>>, <<>>, <<>>, body)

\* ast.parse(content): the Module, or SyntaxError
ast_parse(content) == Module(EachLine(SplitOn(content, <<NL>>)))

\* ast.walk(node): the nodes breadth first, children in field order
RECURSIVE Walk(_)
Walk(todo) ==
    IF todo = <<>> THEN <<>>
    ELSE <<Head(todo)>> \o Walk(Tail(todo) \o Head(todo).kids)

ast_walk(node) == Walk(<<node>>)

\* ------------------------------------------------------------------ logs
Rec(level, msg, line, text) ==
    [level |-> level, msg |-> msg, line |-> line, text |-> text]
Msg(level, msg) == Rec(level, msg, 0, <<>>)

Whitespace == {" ", NL, CR}

\* str.strip()
RECURSIVE Strip(_)
Strip(s) ==
    IF s = <<>> THEN <<>>
    ELSE IF Head(s) \in Whitespace THEN Strip(Tail(s))
    ELSE IF s[Len(s)] \in Whitespace THEN Strip(SubSeq(s, 1, Len(s) - 1))
    ELSE s

\* one "Line n: statement" record per entry of unused_imports
LineRecs(msg, unused) ==
    [i \in 1..Len(unused) |-> Rec("INFO", msg, unused[i][1], Strip(unused[i][2]))]

\* --------------------------------------------------- find_unused_imports
\* the while loop of the Attribute branch: walk to the root of the chain
RECURSIVE ChainLoop(_, _)
ChainLoop(name, current_node) ==
    IF current_node.type = "Attribute"
    THEN ChainLoop(<<".">> \o current_node.attr \o name, current_node.kids[1])
    ELSE [name |-> name, current_node |-> current_node]

\* a collector that records bare identifiers only
NamesOfNode_bare(node) == IF node.type = "Name" THEN {node.id} ELSE {}

\* after the loop: the dotted name, when the chain is rooted at a Name
ChainName(r) ==
    IF r.current_node.type = "Name" THEN {r.current_node.id \o r.name} ELSE {}

\* what one node of the first walk adds to all_names
NamesOfNode(node) ==
    IF node.type = "Name" THEN {node.id}
    ELSE IF node.type = "Attribute" THEN ChainName(ChainLoop(<<>>, node))
    ELSE {}

AllNames(t) == UNION {NamesOfNode(n) : n \in Range(ast_walk(t))}

\* an auditor that ignores the alias
ImportedName_name(alias) == alias.name

\* imported_name = alias.asname or alias.name
ImportedName(alias) == IF alias.asname # <<>> THEN alias.asname ELSE alias.name

IsImportNode(node) == node.type \in {"Import", "ImportFrom"}

\* the slice of content taken for a statement that starts on line lineno
ImportStatement(content, lineno) ==
    IF lineno > 1
    THEN PySlice(content,
                 PyRFind(content, NL, 0, lineno - 1) + 1,
                 PyFind(content, NL, lineno - 1))
    ELSE PySlice(content, 0, PyFind(content, NL, lineno - 1))

\* one (lineno, import_statement) tuple per alias of `un`
Appended(un, lineno, content) ==
    [i \in 1..Len(un) |-> <<lineno, ImportStatement(content, lineno)>>]

\* the records one import node appends, one per unused alias, in order
UnusedOfNode(node, all_names, content) ==
    Appended(SelectSeq(node.names, LAMBDA alias : ImportedName(alias) \notin all_names),
             node.lineno, content)

EachImport(nodes, all_names, content) ==
    Concat([i \in 1..Len(nodes) |-> UnusedOfNode(nodes[i], all_names, content)])

\* the second walk
UnusedLoop(t, all_names, content) ==
    EachImport(SelectSeq(ast_walk(t), IsImportNode), all_names, content)

\* the exceptions the handlers around open/read catch
CaughtOnRead(exc) == exc \in IOErrors

Returned(unused, t, lg) ==
    [exc |-> "ok", unused |-> unused, tree |-> t, log |-> lg]
Raised(exc) ==
    [exc |-> exc, unused |-> <<>>, tree |-> NoTree, log |-> <<>>]

\* no handler: the SyntaxError leaves find_unused_imports
OnSyntaxError_raise == Raised("SyntaxError")

\* the handler of SyntaxError around ast.parse
OnSyntaxError == Returned(<<>>, NoTree, <<Msg("ERROR", "Syntax error in file")>>)

\* lines 64-92, once the tree is built
Audit(parsed, content) ==
    IF parsed = SyntaxError THEN OnSyntaxError
    ELSE Returned(UnusedLoop(parsed, AllNames(parsed), content), parsed, <<>>)

\* lines 48-62, once the read was attempted
AfterRead(r) ==
    IF r.exc = "ok" THEN Audit(ast_parse(r.text), r.text)
    ELSE IF ~CaughtOnRead(r.exc) THEN Raised(r.exc)
    ELSE IF r.exc = "FileNotFoundError"
    THEN Returned(<<>>, NoTree, <<Msg("ERROR", "File not found")>>)
    ELSE Returned(<<>>, NoTree, <<Msg("ERROR", "Error reading file")>>)

find_unused_imports(t, aggressive) == AfterRead(FRead(t))

\* ------------------------------------------------- remove_unused_imports
LinesToRemove(unused) == {unused[i][1] : i \in 1..Len(unused)}

NewLines(lines, unused) == SelectIdx(lines, LinesToRemove(unused), 1)

\* a remove step that rewrites the file whatever the flag
OpensForWriting_always(dry) == TRUE

\* whether the function reaches open(filepath, "w")
OpensForWriting(dry) == ~dry

Done(t, lg) == [exc |-> "ok", target |-> t, log |-> lg]

\* lines 123-137.  opened: open(filepath, "w") succeeded; written: the lines
\* that reached the file before the write failed (all when it did not fail)
Rewrite(t, new_lines, unused, dry, opened, written) ==
    IF ~OpensForWriting(dry)
    THEN Done(t, <<Msg("INFO", "Dry run")>> \o LineRecs("Line", unused))
    ELSE IF ~opened
    THEN Done(t, <<Msg("ERROR", "Error writing to file")>>)
    ELSE IF written < Len(new_lines)
    THEN Done(FWriteLines(SubSeq(new_lines, 1, written)),
              <<Msg("ERROR", "Error writing to file")>>)
    ELSE Done(FWriteLines(new_lines),
              <<Msg("INFO", "Removed unused imports")>>
                  \o LineRecs("Removed: Line", unused))

\* lines 108-121, once the read was attempted
AfterReadLines(t, rl, unused, dry, opened, written) ==
    IF rl.exc = "ok"
    THEN Rewrite(t, NewLines(rl.lines, unused), unused, dry, opened, written)
    ELSE IF rl.exc \in IOErrors
    THEN Done(t, <<Msg("ERROR", "Error reading file")>>)
    ELSE [exc |-> rl.exc, target |-> t, log |-> <<>>]

remove_unused_imports(t, unused, dry, opened, written) ==
    IF unused = <<>> THEN Done(t, <<Msg("INFO", "No unused imports found.")>>)
    ELSE AfterReadLines(t, FReadLines(t), unused, dry, opened, written)

\* ---------------------------------------------------------- input files
\* The lines the input files are made of: the import forms (plain, aliased,
\* several names, from-import, dotted module), references (a bare name, an
\* attribute chain), an import inside a one-line def, an import sharing its
\* line with another statement, and a def with no body (not valid syntax).
LineTexts ==
    { kw_import \o <<"a">>,
      kw_import \o <<"a">> \o kw_as \o <<"b">>,
      kw_import \o <<"a", ",", " ", "b">>,
      kw_from \o <<"b", ",", " ", "b">>,
      kw_import \o <<"a", ".", "b">>,
      <<"b">>,
      <<"a", ".", "b">>,
      kw_def \o <<" ">> \o kw_import \o <<"b">>,
      kw_import \o <<"a", ";", " ", "b">>,
      kw_def }

Eols == {<<NL>>, <<CR, NL>>}

\* the lines joined by eol, the last one terminated only when final
JoinLines(ls, eol, final) ==
    Concat([i \in 1..Len(ls) |->
               ls[i] \o (IF i < Len(ls) \/ final THEN eol ELSE <<>>)])

Contents ==
    {JoinLines(ls, eol, final) :
        ls \in SeqsUpTo(LineTexts, MaxLines), eol \in Eols, final \in BOOLEAN}

Targets ==
    {File(d) : d \in Contents}
    \cup {Absent, Directory, Unreadable(<<"b", NL>>), File(<<InvalidByte, NL>>)}

dot_py == <<".", "p", "y">>

\* str.endswith(suffix)
EndsWith(s, suffix) ==
    Len(s) >= Len(suffix) /\ SubSeq(s, Len(s) - Len(suffix) + 1, Len(s)) = suffix

\* the paths given on the command line: regular files are named t.py, any
\* other entry t.py or t
Paths(t) ==
    IF t.kind = "file" /\ t.readable /\ InvalidByte \notin Range(t.data)
    THEN {<<"t">> \o dot_py}
    ELSE {<<"t">> \o dot_py, <<"t">>}

\* ---------------------------------------------------------------- main()
NoRun == [ran |-> FALSE, dry_run |-> FALSE, exit_code |-> <<>>, io_failed |-> FALSE]

Init ==
    /\ target \in Targets
    /\ filepath \in Paths(target)
    /\ pc = "main"
    /\ dry_run = FALSE
    /\ unused_imports = <<>>
    /\ tree = NoTree
    /\ log = <<>>
    /\ exit_code = <<>>
    /\ calls = <<>>
    /\ run = 1
    /\ before = target
    /\ prev = NoRun

\* sys.exit(1) from the except clause of main()
MainExcept ==
    /\ log' = log \o <<Msg("ERROR", "An unexpected error occurred")>>
    /\ exit_code' = <<1>>
    /\ pc' = "exited"

\* parse_args and the input validation: lines 144-157
Main ==
    /\ pc = "main"
    /\ \E dry \in BOOLEAN :
        /\ dry_run' = dry
        /\ IF ~os_path_exists(target)
           THEN /\ log' = <<Msg("ERROR", "Error: File does not exist.")>>
                /\ exit_code' = <<1>>
                /\ pc' = "exited"
           ELSE /\ log' = IF EndsWith(filepath, dot_py) THEN <<>>
                          ELSE <<Msg("WARNING", "no .py extension")>>
                /\ exit_code' = exit_code
                /\ pc' = "find"
    /\ UNCHANGED <<filepath, target, unused_imports, tree, calls, run, before, prev>>

\* the call of find_unused_imports: line 160
Find ==
    /\ pc = "find"
    /\ calls' = Append(calls, "find_unused_imports")
    /\ \E aggressive \in BOOLEAN :
        \E r \in {find_unused_imports(target, aggressive)} :
           IF r.exc # "ok"
           THEN MainExcept /\ UNCHANGED <<unused_imports, tree>>
           ELSE /\ unused_imports' = r.unused
                /\ tree' = r.tree
                /\ log' = log \o r.log
                /\ pc' = "remove"
                /\ exit_code' = exit_code
    /\ UNCHANGED <<filepath, target, dry_run, run, before, prev>>

\* the call of remove_unused_imports, and the return of main(): line 161
Remove ==
    /\ pc = "remove"
    /\ calls' = Append(calls, "remove_unused_imports")
    /\ \E opened \in BOOLEAN,
          written \in 0..Len(NewLines(FReadLines(target).lines, unused_imports)) :
        \E r \in {remove_unused_imports(target, unused_imports, dry_run, opened, written)} :
           IF r.exc # "ok"
           THEN MainExcept /\ UNCHANGED target
           ELSE /\ target' = r.target
                /\ log' = log \o r.log
                /\ exit_code' = <<0>>
                /\ pc' = "exited"
    /\ UNCHANGED <<filepath, dry_run, unused_imports, tree, run, before, prev>>

Logged(lg, level, msg) == \E i \in 1..Len(lg) : lg[i].level = level /\ lg[i].msg = msg

Wrote(lg) == Logged(lg, "INFO", "Removed unused imports")

IoFailed(lg) ==
    Logged(lg, "ERROR", "Error reading file") \/ Logged(lg, "ERROR", "Error writing to file")

\* the tool is started again on what the previous invocation left
Rerun ==
    /\ pc = "exited"
    /\ run < MaxRuns
    /\ run' = run + 1
    /\ prev' = [ran |-> TRUE, dry_run |-> dry_run, exit_code |-> exit_code,
                io_failed |-> IoFailed(log)]
    /\ before' = target
    /\ pc' = "main"
    /\ dry_run' = FALSE
    /\ unused_imports' = <<>>
    /\ tree' = NoTree
    /\ log' = <<>>
    /\ exit_code' = <<>>
    /\ calls' = <<>>
    /\ UNCHANGED <<filepath, target>>

Next == Main \/ Find \/ Remove \/ Rerun

Spec == Init /\ [][Next]_vars

\* ================================================================ claims
\* Vocabulary of the claims, defined on the tree and the file themselves
\* and not through the operators that model the tool's loops.

\* the nodes of a tree in source order (depth first, parents first)
RECURSIVE SourceOrder(_)
SourceOrder(nodes) ==
    IF nodes = <<>> THEN <<>>
    ELSE <<Head(nodes)>> \o SourceOrder(Head(nodes).kids) \o SourceOrder(Tail(nodes))

NodesOf(t) == SourceOrder(<<t>>)

\* the dotted text of a Name or of an attribute chain, root first
RECURSIVE Dotted(_)
Dotted(node) ==
    IF node.type = "Attribute" THEN Dotted(node.kids[1]) \o <<".">> \o node.attr
    ELSE node.id

RECURSIVE RootOf(_)
RootOf(node) == IF node.type = "Attribute" THEN RootOf(node.kids[1]) ELSE node

\* the names that occur as a bare identifier or as the root of a chain
BareOrRoot(t) == {n.id : n \in {m \in Range(NodesOf(t)) : m.type = "Name"}}

\* the referenced-name set: bare identifiers, and every dotted chain
Referenced(t) ==
    {Dotted(n) : n \in {m \in Range(NodesOf(t)) :
                            m.type \in {"Name", "Attribute"} /\ RootOf(m).type = "Name"}}

\* the alias if given, else the imported name
EffectiveName(b) == IF b.asname = <<>> THEN b.name ELSE b.asname

\* the bindings of the import statements that start on line n, in order
BindingsOn(t, n) ==
    Concat([i \in 1..Len(NodesOf(t)) |->
               IF NodesOf(t)[i].type \in {"Import", "ImportFrom"} /\ NodesOf(t)[i].lineno = n
               THEN NodesOf(t)[i].names
               ELSE <<>>])

Count(seq, P(_)) == Len(SelectSeq(seq, P))

\* how often line n is reported
Reports(n) == Count(unused_imports, LAMBDA r : r[1] = n)

\* physical lines of the file's data, each with its terminator
RECURSIVE PhysicalLines(_)
PhysicalLines(d) ==
    IF d = <<>> THEN <<>>
    ELSE IF \E i \in 1..Len(d) : d[i] = NL
    THEN <<SubSeq(d, 1, CHOOSE i \in 1..Len(d) : d[i] = NL /\ \A j \in 1..(i - 1) : d[j] # NL)>>
         \o PhysicalLines(SubSeq(d, 1 + (CHOOSE i \in 1..Len(d) :
                                            d[i] = NL /\ \A j \in 1..(i - 1) : d[j] # NL),
                                 Len(d)))
    ELSE <<d>>

\* a physical line without its terminator
Chomp(l) == SelectSeq(l, LAMBDA c : c \notin {NL, CR})

LineNumbers(t) == 1..Len(PhysicalLines(t.data))

\* find_unused_imports has returned a tree
Audited == pc \in {"remove", "exited"} /\ tree # NoTree

\* C1: after a non-dry-run rewrite, no import binding whose effective name is
\* in the referenced-name set has been deleted: its statement's line is not
\* among the deleted lines, even when it shares the line with an unused one.
C1_OnlyUnusedDeleted ==
    (pc = "exited" /\ ~dry_run /\ Wrote(log)) =>
        \A n \in LinesToRemove(unused_imports) :
            \A i \in 1..Len(BindingsOn(tree, n)) :
                EffectiveName(BindingsOn(tree, n)[i]) \notin Referenced(tree)

\* C2: after a non-dry-run rewrite with a non-empty result, the file is
\* exactly the original physical lines whose number is not reported, in
\* order, each verbatim with its terminator.
C2_RewriteVerbatim ==
    (pc = "exited" /\ ~dry_run /\ Wrote(log) /\ unused_imports # <<>>) =>
        target.data = Concat(SelectIdx(PhysicalLines(before.data),
                                       {unused_imports[i][1] : i \in 1..Len(unused_imports)},
                                       1))

\* C3: with the dry-run flag set the target is, at every point of the
\* invocation, what it was when the invocation began.
C3_DryRunLeavesFile == dry_run => target = before

C3_Witness ==
    dry_run /\ pc = "exited" /\ exit_code = <<0>> /\ unused_imports # <<>>

\* C4 as stated: every import whose effective name occurs nowhere as a bare
\* identifier or chain root is reported, and a line is reported at most once
\* per distinct effective name bound on it.
C4_Original ==
    Audited =>
        \A n \in LineNumbers(before) :
            /\ Reports(n) >= Count(BindingsOn(tree, n),
                                   LAMBDA b : EffectiveName(b) \notin BareOrRoot(tree))
            /\ Reports(n) <= Cardinality({EffectiveName(b) : b \in Range(BindingsOn(tree, n))})

\* C4 as amended: an import binding is reported exactly when its effective
\* name is not in the referenced-name set (bare identifiers and dotted
\* chains), one record per binding occurrence: line n is reported as many
\* times as statements starting on it have bindings with such a name.
C4_ReportedPerBinding ==
    Audited =>
        \A n \in LineNumbers(before) :
            Reports(n) = Count(BindingsOn(tree, n),
                               LAMBDA b : EffectiveName(b) \notin Referenced(tree))

C4_Witness ==
    /\ Audited
    /\ Len(unused_imports) >= 2
    /\ unused_imports[1][1] = unused_imports[2][1]
    /\ Cardinality({EffectiveName(b) : b \in Range(BindingsOn(tree, unused_imports[1][1]))}) = 1

\* C5: an import whose alias is referenced as a bare identifier or chain
\* root is never reported: a line is reported at most once per binding on it
\* that has no alias or whose alias is not so referenced.
C5_ReferencedAliasKept ==
    Audited =>
        \A n \in LineNumbers(before) :
            Reports(n) <= Count(BindingsOn(tree, n),
                                LAMBDA b : b.asname = <<>> \/ b.asname \notin BareOrRoot(tree))

C5_Witness ==
    /\ Audited
    /\ \E n \in LineNumbers(before) :
          /\ Len(BindingsOn(tree, n)) = 1
          /\ BindingsOn(tree, n)[1].asname \in BareOrRoot(tree)
          /\ BindingsOn(tree, n)[1].name \notin Referenced(tree)
          /\ Reports(n) = 0

\* C6: a run on the file a non-dry-run run produced (one that ended normally,
\* without an I/O failure) reports no unused import and leaves the file as it
\* found it.
C6_Idempotent ==
    (prev.ran /\ ~prev.dry_run /\ prev.exit_code = <<0>> /\ ~prev.io_failed) =>
        /\ pc \in {"remove", "exited"} => unused_imports = <<>>
        /\ target = before

\* C7: the returned list is in source order: line numbers never decrease
\* along it.
C7_SourceOrdered ==
    Audited =>
        \A i \in 1..Len(unused_imports) : \A j \in i..Len(unused_imports) :
            unused_imports[i][1] <= unused_imports[j][1]

\* C8: the text of every record (n, text) is physical line n of the file,
\* without its terminator.
C8_LiteralLine ==
    Audited =>
        \A i \in 1..Len(unused_imports) :
            /\ unused_imports[i][1] \in LineNumbers(before)
            /\ unused_imports[i][2] = Chomp(PhysicalLines(before.data)[unused_imports[i][1]])

\* the target is a readable text file that does not parse
NotValidSyntax(t) ==
    /\ t.kind = "file" /\ t.readable /\ InvalidByte \notin Range(t.data)
    /\ ast_parse(UniversalNewlines(t.data)) = SyntaxError

\* C9: on a file that is not valid syntax, find_unused_imports logs a syntax
\* error and returns an empty list and no tree; the file is never changed,
\* with or without dry-run, and the process ends with status 0.
C9_SyntaxErrorHandled ==
    NotValidSyntax(before) =>
        /\ target = before
        /\ pc \in {"remove", "exited"} =>
              /\ unused_imports = <<>>
              /\ tree = NoTree
              /\ Logged(log, "ERROR", "Syntax error in file")
        /\ pc = "exited" =>
              /\ exit_code = <<0>>
              /\ ~Logged(log, "ERROR", "An unexpected error occurred")
              /\ calls = <<"find_unused_imports", "remove_unused_imports">>

C9_Witness == NotValidSyntax(before) /\ pc = "exited" /\ ~dry_run

\* C10: when the path does not exist, main logs an error and exits with
\* status 1 without calling find_unused_imports or remove_unused_imports,
\* and nothing is created.
C10_MissingPathExits ==
    before.kind = "absent" =>
        /\ calls = <<>>
        /\ target = before
        /\ pc \in {"main", "exited"}
        /\ pc = "exited" =>
              /\ exit_code = <<1>>
              /\ Logged(log, "ERROR", "Error: File does not exist.")

C10_Witness == before.kind = "absent" /\ pc = "exited"

====
